---- MODULE Spec2Model ----
(***************************************************************************)
(* Model of src/parser.py: UzbekCourtAPIParser, the rate-controlled,       *)
(* resumable crawl of a paged catalogue with concurrent PDF processing.    *)
(*                                                                         *)
(* Durations are held in hundredths of a second (0.1 s is 10); a product   *)
(* with a factor is rounded down to a hundredth.  Python None for an       *)
(* Optional value is the empty tuple, a present value x is <<x>>.          *)
(*                                                                         *)
(* Threads: thread 0 is the main thread (parse_all_decisions); thread i>0  *)
(* runs the pool task of the i-th decision of the current page.  The two   *)
(* methods every thread shares, _adaptive_delay and _check_rate_limits,    *)
(* are translated statement by statement: the code takes no lock, so a     *)
(* pool thread may be suspended between any two statements, and between    *)
(* the read and the write of an update of a shared field.                  *)
(***************************************************************************)
EXTENDS Integers, Sequences, FiniteSets, TLC

(* ---------------------------------------------------------------- bounds *)
MaxPages == 3
MaxEntries == 2
MaxRuns == 2

(* ------------------------------------------------------ program constants *)
min_delay == 10
max_delay == 1000
backoff_factor == 15
delay == 30
InitialDelay == 150
ServerErrorFactor == 15
DecayFactor == 9
LowQuotaThreshold == 10
LowQuotaDelay == 200
RetryAfterMargin == 50
PageDelay == 10
MinTextLen == 50
IdPrefixLen == 8

None == << >>
Some(x) == << x >>
IsNone(o) == o = << >>
Val(o) == o[1]

Min(a, b) == IF a <= b THEN a ELSE b
Max(a, b) == IF a >= b THEN a ELSE b

MainThread == 0
Tasks == 1 .. MaxEntries
Threads == {MainThread} \cup Tasks

(* n seconds, in hundredths. *)
Seconds(n) == n * 100

(* A float product d * f, f given in tenths, rounded down to a hundredth. *)
Times(d, f10) == (d * f10) \div 10

(* ------------------------------------------------------------ rate limits *)
(* min(current_delay * factor, max_delay): lines 190-193, 199-202, 323-326. *)
EscalateUnclamped(d, f10) == Times(d, f10)
NoEscalation(d, f10) == Min(d, max_delay)
Escalate(d, f10) == Min(Times(d, f10), max_delay)

(* max(current_delay * 0.9, min_delay): lines 211-214. *)
DecayAsGrowth(d) == Max(Times(d, 11), min_delay)
Decay(d) == Max(Times(d, DecayFactor), min_delay)

(* max(current_delay, 2.0): line 223. *)
QuotaFloor(d) == Max(d, LowQuotaDelay)

(* A header: absent, a text int() rejects, or the decimal text of v. *)
Absent == [k |-> "absent"]
Text == [k |-> "text"]
Num(v) == [k |-> "int", v |-> v]
(* `if header:` then int(header) without ValueError *)
Parses(h) == h.k = "int"

RateLimitInfo ==
    [is_limited |-> FALSE, retry_after |-> None, current_delay |-> InitialDelay,
     consecutive_errors |-> 0, last_request_time |-> None]

VARIABLES
    rate_limit,     \* self.rate_limit
    stats,          \* self.stats
    th,             \* per thread: position in the client call and its locals
    pc,             \* position of parse_all_decisions
    cfg,            \* the arguments of parse_all_decisions
    catalog,        \* the server's catalogue: period -> pages of raw entries
    world,          \* the responses the servers may give in this run
    queue,          \* sections_to_process still to visit
    period,         \* the section being crawled
    first_page_data,
    total_pages,
    actual_end_page,
    page,
    all_decisions,  \* the list parse_all_decisions returns
    page_base,      \* page_decisions is all_decisions past this index
    handled,        \* futures as_completed has yielded and the loop handled
    metadata_files, \* metadata/page_<period>_<page>.json: identity -> content
    text_files,     \* extracted_text/<name>.txt: name -> content
    run,            \* number of the run (process) in progress
    printed,        \* times _print_final_stats ran in this run
    trail,          \* what this run did, page by page (history)
    at_start,       \* the metadata files this run found on disk (history)
    submitted,      \* rate_limit when the latest batch was submitted (history)
    streak          \* the latest observations of the rate controller (history)

vars == << rate_limit, stats, th, pc, cfg, catalog, world, queue, period,
           first_page_data, total_pages, actual_end_page, page, all_decisions,
           page_base, handled, metadata_files, text_files, run, printed, trail,
           at_start, submitted, streak >>

orchVars == << pc, cfg, catalog, world, queue, period, first_page_data,
               total_pages, actual_end_page, page, all_decisions, page_base,
               handled, metadata_files, text_files, run, printed, trail,
               at_start, submitted >>

(* --------------------------------------------------------------- threads *)
(* History of the observations: whether error outcomes came right before  *)
(* the 200 responses observed since (errs), how many those are (oks, 2 for *)
(* two or more), whether one of them carried a low remaining quota (low),  *)
(* and whether none of them left current_delay above what it found (mono). *)
NoStreak == [errs |-> FALSE, oks |-> 0, low |-> FALSE, mono |-> TRUE]
AfterError == [errs |-> TRUE, oks |-> 0, low |-> FALSE, mono |-> TRUE]
AfterOk(k, low, before, after) ==
    [k EXCEPT !.oks = Min(@ + 1, 2), !.low = @ \/ low,
              !.mono = @ /\ after <= before]

NoResponse == [status |-> 0, retry_after |-> Absent, remaining |-> Absent,
               body |-> [kind |-> "none"]]
(* History kept with a call: the requests it issued (reqs), the            *)
(* suspensions it made (naps), and the rate-limit state and the failure    *)
(* counters its latest _adaptive_delay call found (was).                   *)
Snapshot == [rate_limit |-> rate_limit, errors |-> stats.errors,
             text_extraction_errors |-> stats.text_extraction_errors]
NoSnapshot == [rate_limit |-> RateLimitInfo, errors |-> 0, text_extraction_errors |-> 0]
IdleThread == [pc |-> "idle", phase |-> "pre", resp |-> NoResponse, tmp |-> 0,
               slept |-> None, ret |-> None, entry |-> 0,
               reqs |-> 0, naps |-> 0, was |-> NoSnapshot]
NoThreads == [t \in Threads |-> IdleThread]
NoPage == [totalPages |-> 0, content |-> << >>]

(* The thread as it enters a client call (get_decisions_list line 297,   *)
(* download_pdf_and_extract_text line 400) or line 610.                   *)
Entering(phase) == [IdleThread EXCEPT !.pc = "ad_test", !.phase = phase]

Now == "now"

(* Where a thread goes when _adaptive_delay returns. *)
AfterDelay(t) == IF th[t].phase = "between" THEN "done" ELSE "get"

(* _adaptive_delay, line 232 and the branches of lines 238-245. *)
AD_Test(t) ==
    /\ th[t].pc = "ad_test"
    /\ IF ~IsNone(rate_limit.retry_after) /\ Val(rate_limit.retry_after) # 0
       THEN /\ th' = [th EXCEPT ![t].pc = "ad_read", ![t].was = Snapshot]
            /\ UNCHANGED rate_limit
       ELSE /\ th' = [th EXCEPT
                  ![t].slept = IF rate_limit.consecutive_errors > 0
                               THEN Some(rate_limit.current_delay)
                               ELSE Some(delay),
                  ![t].naps = @ + 1, ![t].was = Snapshot,
                  ![t].pc = AfterDelay(t)]
            /\ rate_limit' = [rate_limit EXCEPT !.last_request_time = Some(Now)]
    /\ UNCHANGED << stats, orchVars, streak >>

(* line 233: delay = retry_after + 0.5; None + 0.5 raises TypeError. *)
AD_Read(t) ==
    /\ th[t].pc = "ad_read"
    /\ th' = IF IsNone(rate_limit.retry_after)
             THEN [th EXCEPT ![t].pc = "raised"]
             ELSE [th EXCEPT ![t].tmp = Seconds(Val(rate_limit.retry_after)) + RetryAfterMargin,
                             ![t].pc = "ad_clear"]
    /\ UNCHANGED << rate_limit, stats, orchVars, streak >>

(* lines 235-236: time.sleep(delay); retry_after = None. *)
AD_Clear(t) ==
    /\ th[t].pc = "ad_clear"
    /\ th' = [th EXCEPT ![t].slept = Some(th[t].tmp), ![t].naps = @ + 1,
                        ![t].pc = "ad_unlim"]
    /\ rate_limit' = [rate_limit EXCEPT !.retry_after = None]
    /\ UNCHANGED << stats, orchVars, streak >>

(* lines 237 and 245: is_limited = False; last_request_time = time.time(). *)
AD_Unlimit(t) ==
    /\ th[t].pc = "ad_unlim"
    /\ rate_limit' = [rate_limit EXCEPT !.is_limited = FALSE,
                                        !.last_request_time = Some(Now)]
    /\ th' = [th EXCEPT ![t].pc = AfterDelay(t)]
    /\ UNCHANGED << stats, orchVars, streak >>

(* The first statement _check_rate_limits runs for a status: 175, 197, 206. *)
CrlEntry(status) ==
    CASE status = 429 -> "crl_lim"
      [] status \in {502, 503, 504} -> "crl_inc_r"
      [] status = 200 -> "crl_ok_test"
      [] OTHER -> "crl_hdr"

Responses(t) == IF t = MainThread THEN world.listing ELSE world.pdf[t]

(* session.get, lines 300/304 and 403/407.  Status 0 stands for the        *)
(* RequestException of a timeout or a connection failure.  The first       *)
(* response goes to _check_rate_limits; the response of the retry does not.*)
Get(t) ==
    /\ th[t].pc = "get"
    /\ \E r \in Responses(t) :
         /\ th' = [th EXCEPT ![t].resp = r, ![t].reqs = @ + 1,
                             ![t].entry = rate_limit.current_delay,
                             ![t].pc = IF r.status = 0 THEN "h_err_r"
                                       ELSE IF th[t].phase = "retry" THEN "post"
                                       ELSE CrlEntry(r.status)]
         /\ streak' = IF th[t].phase = "pre" /\ r.status \in {429, 502, 503, 504}
                       THEN AfterError ELSE streak
    /\ UNCHANGED << rate_limit, stats, orchVars >>

(* _check_rate_limits returned False: lines 302-303, 405-406. *)
ReturnFalseAndCheckAgain(t) == [th EXCEPT ![t].phase = "pre", ![t].pc = "ad_test"]
ReturnFalse(t) == [th EXCEPT ![t].phase = "retry", ![t].pc = "ad_test"]

(* line 176 *)
CRL_Limit(t) ==
    /\ th[t].pc = "crl_lim"
    /\ rate_limit' = [rate_limit EXCEPT !.is_limited = TRUE]
    /\ th' = [th EXCEPT ![t].pc = "crl_inc_r"]
    /\ UNCHANGED << stats, orchVars, streak >>

(* lines 177 and 198: consecutive_errors += 1, the read and then the write. *)
CRL_Inc(t) ==
    /\ th[t].pc \in {"crl_inc_r", "crl_inc_w"}
    /\ IF th[t].pc = "crl_inc_r"
       THEN /\ th' = [th EXCEPT ![t].tmp = rate_limit.consecutive_errors,
                                ![t].pc = "crl_inc_w"]
            /\ UNCHANGED rate_limit
       ELSE /\ rate_limit' = [rate_limit EXCEPT !.consecutive_errors = th[t].tmp + 1]
            /\ th' = [th EXCEPT ![t].pc = IF th[t].resp.status = 429
                                          THEN "crl_ra" ELSE "crl_esc_r"]
    /\ UNCHANGED << stats, orchVars, streak >>

(* lines 180-187: a Retry-After that int() accepts is stored, return False. *)
CRL_RetryAfter(t) ==
    /\ th[t].pc = "crl_ra"
    /\ IF Parses(th[t].resp.retry_after)
       THEN /\ rate_limit' = [rate_limit EXCEPT
                                 !.retry_after = Some(th[t].resp.retry_after.v)]
            /\ th' = ReturnFalse(t)
       ELSE /\ th' = [th EXCEPT ![t].pc = "crl_esc_r"]
            /\ UNCHANGED rate_limit
    /\ UNCHANGED << stats, orchVars, streak >>

(* lines 190-195 (factor backoff_factor) and 199-204 (factor 1.5). *)
CRL_Escalate(t) ==
    /\ th[t].pc \in {"crl_esc_r", "crl_esc_w"}
    /\ IF th[t].pc = "crl_esc_r"
       THEN /\ th' = [th EXCEPT ![t].tmp = rate_limit.current_delay,
                                ![t].pc = "crl_esc_w"]
            /\ UNCHANGED rate_limit
       ELSE /\ rate_limit' = [rate_limit EXCEPT !.current_delay =
                    Escalate(th[t].tmp, IF th[t].resp.status = 429
                                        THEN backoff_factor ELSE ServerErrorFactor)]
            /\ th' = ReturnFalse(t)
    /\ UNCHANGED << stats, orchVars, streak >>

(* lines 206-209: on 200, a positive consecutive_errors is reset. *)
CRL_Ok(t) ==
    /\ th[t].pc \in {"crl_ok_test", "crl_ok_reset"}
    /\ IF th[t].pc = "crl_ok_test"
       THEN /\ th' = [th EXCEPT ![t].pc = IF rate_limit.consecutive_errors > 0
                                          THEN "crl_ok_reset" ELSE "crl_hdr"]
            /\ UNCHANGED rate_limit
       ELSE /\ rate_limit' = [rate_limit EXCEPT !.consecutive_errors = 0]
            /\ th' = [th EXCEPT ![t].pc = "crl_dec_r"]
    /\ UNCHANGED << stats, orchVars, streak >>

(* lines 211-214: current_delay = max(current_delay * 0.9, min_delay). *)
CRL_Decay(t) ==
    /\ th[t].pc \in {"crl_dec_r", "crl_dec_w"}
    /\ IF th[t].pc = "crl_dec_r"
       THEN /\ th' = [th EXCEPT ![t].tmp = rate_limit.current_delay,
                                ![t].pc = "crl_dec_w"]
            /\ UNCHANGED rate_limit
       ELSE /\ rate_limit' = [rate_limit EXCEPT !.current_delay = Decay(th[t].tmp)]
            /\ th' = [th EXCEPT ![t].pc = "crl_hdr"]
    /\ UNCHANGED << stats, orchVars, streak >>

(* lines 218-228: a remaining-quota header below 10 floors the delay at   *)
(* 2.0; the method returns True.                                           *)
LowQuota(r) == Parses(r.remaining) /\ r.remaining.v < LowQuotaThreshold

CRL_Headers(t) ==
    /\ th[t].pc \in {"crl_hdr", "crl_floor_r", "crl_floor_w"}
    /\ CASE th[t].pc = "crl_hdr" ->
              /\ th' = [th EXCEPT ![t].pc = IF LowQuota(th[t].resp)
                                            THEN "crl_floor_r" ELSE "post"]
              /\ UNCHANGED rate_limit
         [] th[t].pc = "crl_floor_r" ->
              /\ th' = [th EXCEPT ![t].tmp = rate_limit.current_delay,
                                  ![t].pc = "crl_floor_w"]
              /\ UNCHANGED rate_limit
         [] OTHER ->
              /\ rate_limit' = [rate_limit EXCEPT !.current_delay = QuotaFloor(th[t].tmp)]
              /\ th' = [th EXCEPT ![t].pc = "post"]
    /\ streak' = IF th'[t].pc = "post" /\ th[t].resp.status = 200
                  THEN AfterOk(streak, LowQuota(th[t].resp), th[t].entry,
                               rate_limit'.current_delay)
                  ELSE streak
    /\ UNCHANGED << stats, orchVars >>

(* except requests.exceptions.RequestException: lines 318-328, 421-431.   *)
(* errors += 1; consecutive_errors += 1; the delay times 1.5; return None. *)
Handler(t) ==
    /\ th[t].pc \in {"h_err_r", "h_err_w", "h_inc_r", "h_inc_w", "h_esc_r", "h_esc_w"}
    /\ streak' = AfterError
    /\ CASE th[t].pc = "h_err_r" ->
              /\ th' = [th EXCEPT ![t].tmp = stats.errors, ![t].pc = "h_err_w"]
              /\ UNCHANGED << rate_limit, stats >>
         [] th[t].pc = "h_err_w" ->
              /\ stats' = [stats EXCEPT !.errors = th[t].tmp + 1]
              /\ th' = [th EXCEPT ![t].pc = "h_inc_r"]
              /\ UNCHANGED rate_limit
         [] th[t].pc = "h_inc_r" ->
              /\ th' = [th EXCEPT ![t].tmp = rate_limit.consecutive_errors,
                                  ![t].pc = "h_inc_w"]
              /\ UNCHANGED << rate_limit, stats >>
         [] th[t].pc = "h_inc_w" ->
              /\ rate_limit' = [rate_limit EXCEPT !.consecutive_errors = th[t].tmp + 1]
              /\ th' = [th EXCEPT ![t].pc = "h_esc_r"]
              /\ UNCHANGED stats
         [] th[t].pc = "h_esc_r" ->
              /\ th' = [th EXCEPT ![t].tmp = rate_limit.current_delay,
                                  ![t].pc = "h_esc_w"]
              /\ UNCHANGED << rate_limit, stats >>
         [] OTHER ->
              /\ rate_limit' = [rate_limit EXCEPT !.current_delay =
                                   Escalate(th[t].tmp, ServerErrorFactor)]
              /\ th' = [th EXCEPT ![t].ret = None, ![t].pc = "done"]
              /\ UNCHANGED stats
    /\ UNCHANGED orchVars

(* ------------------------------------------------------------- decisions *)
(* parse_decision_from_json, lines 330-391: None for an entry that lacks a *)
(* required key (KeyError) or, in the old schema, an attachment list.      *)
RequiredNewButDate == {"id", "case_number", "court_names", "result", "instance", "pdf"}
RequiredNew == {"id", "case_number", "court_names", "hearing_date", "result",
                "instance", "pdf"}

(* str(n) of a natural number: its decimal digits. *)
Digit(n) == << "0", "1", "2", "3", "4", "5", "6", "7", "8", "9" >>[n + 1]
RECURSIVE Str(_)
Str(n) == IF n < 10 THEN << Digit(n) >> ELSE Str(n \div 10) \o << Digit(n % 10) >>

CourtDecision(id, case_number, instance, pdf_id) ==
    [id |-> id, case_number |-> case_number, instance |-> instance,
     pdf_id |-> pdf_id, text_file_path |-> None,
     text_file_relative_path |-> None, text_extraction_success |-> FALSE,
     extracted_text |-> None]

parse_decision_from_json(e, per) ==
    IF per = "new"
    THEN IF RequiredNew \subseteq DOMAIN e
         THEN Some(CourtDecision(e.id, e.case_number, e.instance, e.pdf))
         ELSE None
    ELSE IF "attachmentsList" \notin DOMAIN e \/ e.attachmentsList = << >>
         THEN None
         ELSE IF "id" \notin DOMAIN e
              THEN None
              ELSE Some(CourtDecision(Str(e.id),
                        IF "caseNumber" \in DOMAIN e THEN e.caseNumber ELSE << >>,
                        "FIRST", e.attachmentsList[1]))

(* The decisions of a page: lines 589-593, entries that parse, in order. *)
RECURSIVE ParsePage(_, _)
ParsePage(content, per) ==
    IF content = << >> THEN << >>
    ELSE parse_decision_from_json(Head(content), per) \o ParsePage(Tail(content), per)

(* to_dict, lines 65-70: every field but extracted_text. *)
to_dict(d) == [f \in DOMAIN d \ {"extracted_text"} |-> d[f]]

(* _create_safe_filename, lines 653-661: the slashes are replaced in the    *)
(* case number (line 655), the other characters in the whole name (658).   *)
Slashes == {"/", "\\"}
Forbidden == {"<", ">", ":", "\"", "|", "?", "*"}
Replace(str, chars) == [i \in 1 .. Len(str) |-> IF str[i] \in chars THEN "_" ELSE str[i]]
_create_safe_filename(d) ==
    Replace(Replace(d.case_number, Slashes) \o << "_" >>
               \o SubSeq(d.id, 1, Min(IdPrefixLen, Len(d.id))),
            Forbidden)

(* ------------------------------------------------------------ client calls *)
PageData(per, p) ==
    [totalPages |-> Len(catalog[per]),
     content |-> IF p < Len(catalog[per]) THEN catalog[per][p + 1] ELSE << >>]

(* What lines 307-316 make of a 200 body: the old API may wrap the page   *)
(* in {"data": ...}; a body without totalPages and content reads as 0, []. *)
Decoded(body, per, p) ==
    IF per = "old" \/ body.kind = "page"
    THEN PageData(per, p)
    ELSE [totalPages |-> 0, content |-> << >>]

(* The page number of the listing call in progress: 0 at line 518. *)
RequestedPage == IF pc = "first" THEN 0 ELSE page

(* get_decisions_list after its requests, lines 306-316.  A body that is   *)
(* no JSON raises requests' JSONDecodeError, a RequestException; a wrapped *)
(* string that is no JSON raises json.JSONDecodeError at line 312, which   *)
(* no except clause of the method catches.                                 *)
PostListing ==
    /\ th[MainThread].pc = "post"
    /\ LET r == th[MainThread].resp IN
       th' = [th EXCEPT ![MainThread] =
                CASE r.status # 200 \/ r.body.kind = "notjson" -> [@ EXCEPT !.pc = "h_err_r"]
                  [] period = "old" /\ r.body.kind = "wrappedbad" -> [@ EXCEPT !.pc = "raised"]
                  [] OTHER -> [@ EXCEPT !.pc = "done",
                                        !.ret = Some(Decoded(r.body, period, RequestedPage))]]
    /\ UNCHANGED << rate_limit, stats, orchVars, streak >>

(* download_pdf_and_extract_text after its requests, lines 409-419, with   *)
(* extract_text_from_pdf, lines 247-277.  body.ok: fitz reads the bytes;   *)
(* body.len: the length of the stripped text it yields.                    *)
StatBump(t, field, next) ==
    /\ stats' = [stats EXCEPT ![field] = th[t].tmp + 1]
    /\ th' = [th EXCEPT ![t].pc = next]

PostPdf(t) ==
    /\ t \in Tasks
    /\ th[t].pc \in {"post", "x_err_r", "x_err_w", "x_txt_r", "x_txt_w", "x_pdf_r", "x_pdf_w"}
    /\ LET r == th[t].resp IN
       CASE th[t].pc = "post" ->
              /\ th' = [th EXCEPT ![t] =
                         CASE r.status # 200 -> [@ EXCEPT !.pc = "h_err_r"]
                           [] ~r.body.ok -> [@ EXCEPT !.pc = "x_err_r"]
                           [] r.body.len < MinTextLen -> [@ EXCEPT !.pc = "done", !.ret = None]
                           [] OTHER -> [@ EXCEPT !.pc = "x_txt_r"]]
              /\ UNCHANGED stats
         [] th[t].pc = "x_err_r" ->
              /\ th' = [th EXCEPT ![t].tmp = stats.text_extraction_errors, ![t].pc = "x_err_w"]
              /\ UNCHANGED stats
         [] th[t].pc = "x_err_w" ->
              /\ stats' = [stats EXCEPT !.text_extraction_errors = th[t].tmp + 1]
              /\ th' = [th EXCEPT ![t].pc = "done", ![t].ret = None]
         [] th[t].pc = "x_txt_r" ->
              /\ th' = [th EXCEPT ![t].tmp = stats.texts_extracted, ![t].pc = "x_txt_w"]
              /\ UNCHANGED stats
         [] th[t].pc = "x_txt_w" -> StatBump(t, "texts_extracted", "x_pdf_r")
         [] th[t].pc = "x_pdf_r" ->
              /\ th' = [th EXCEPT ![t].tmp = stats.pdfs_downloaded, ![t].pc = "x_pdf_w"]
              /\ UNCHANGED stats
         [] OTHER ->
              /\ stats' = [stats EXCEPT !.pdfs_downloaded = th[t].tmp + 1]
              /\ th' = [th EXCEPT ![t].pc = "done", ![t].ret = Some(r.body.len)]
    /\ UNCHANGED << rate_limit, orchVars, streak >>

(* ------------------------------------------------------ parse_all_decisions *)
InitialStats ==
    [pages_processed |-> 0, decisions_found |-> 0, pdfs_downloaded |-> 0,
     texts_extracted |-> 0, text_extraction_errors |-> 0, errors |-> 0]

(* lines 505-513; any other section raises ValueError at line 513. *)
Sections == {"new", "old", "both"}
SectionsToProcess(section) ==
    CASE section = "new" -> << "new" >>
      [] section = "old" -> << "old" >>
      [] section = "both" -> << "new", "old" >>
      [] OTHER -> << >>

Truthy(o) == ~IsNone(o) /\ Val(o) # 0

PageId == << period, page >>
(* page_metadata_file.exists(), lines 568-569 *)
ExistsNever(id) == FALSE
Exists(id) == id \in DOMAIN metadata_files
(* A file as written: what it holds, and the run that wrote it. *)
Artifact(content) == [content |-> content, run |-> run]
page_decisions == SubSeq(all_decisions, page_base + 1, Len(all_decisions))
Event(k) == [k |-> k, per |-> period, pg |-> page]

Running == pc \notin {"done", "raised", "interrupted"}

(* line 515, the head of the loop over the sections; line 518 enters       *)
(* get_decisions_list(page=0).  After the last section, line 614.          *)
SectionLoop ==
    /\ pc = "section"
    /\ IF queue = << >>
       THEN /\ pc' = "stats"
            /\ UNCHANGED << period, queue, th >>
       ELSE /\ period' = Head(queue)
            /\ queue' = Tail(queue)
            /\ th' = [th EXCEPT ![MainThread] = Entering("pre")]
            /\ pc' = "first"
    /\ UNCHANGED << rate_limit, stats, cfg, catalog, world, streak, at_start, submitted, first_page_data,
                    total_pages, actual_end_page, page, all_decisions, page_base,
                    handled, metadata_files, text_files, run, printed, trail >>

(* lines 536-547: the pages of the section, capped by max_pages, and the   *)
(* page after the last one to visit.                                       *)
TotalPages(data) ==
    IF Truthy(cfg.max_pages) THEN Min(data.totalPages, Val(cfg.max_pages))
    ELSE data.totalPages
ActualEndPageExclusive(tp) ==
    IF ~IsNone(cfg.end_page) THEN Min(Val(cfg.end_page), tp) ELSE tp
ActualEndPage(tp) ==
    IF ~IsNone(cfg.end_page) THEN Min(Val(cfg.end_page) + 1, tp) ELSE tp

(* lines 519-521: without the first page the loop over the sections goes   *)
(* on with the next section.                                               *)
LeaveSectionLoop == "stats"
AfterFirstPageFailure == "section"

(* lines 519-561: the first page decides whether the section is crawled. *)
FirstPage ==
    /\ pc = "first"
    /\ th[MainThread].pc \in {"done", "raised"}
    /\ IF th[MainThread].pc = "raised"
       THEN /\ pc' = "raised"
            /\ UNCHANGED << first_page_data, total_pages, actual_end_page, page >>
       ELSE IF IsNone(th[MainThread].ret)
       THEN /\ pc' = AfterFirstPageFailure
            /\ UNCHANGED << first_page_data, total_pages, actual_end_page, page >>
       ELSE LET data == Val(th[MainThread].ret)
                tp == TotalPages(data)
                ae == ActualEndPage(tp)
            IN /\ first_page_data' = data
               /\ total_pages' = tp
               /\ actual_end_page' = ae
               /\ page' = cfg.start_page
               /\ pc' = IF (cfg.start_page > 0 /\ cfg.start_page >= tp)
                           \/ cfg.start_page >= ae
                        THEN "section" ELSE "page"
    /\ th' = [th EXCEPT ![MainThread] = IdleThread]
    /\ trail' = IF th[MainThread].pc = "raised" \/ IsNone(th[MainThread].ret)
                 THEN trail
                 ELSE trail
                      \cup {[k |-> "found", per |-> period,
                              pg |-> Val(th[MainThread].ret).totalPages]}
                      \cup IF pc' = "page"
                           THEN {[k |-> "range", per |-> period, pg |-> actual_end_page']}
                           ELSE {}
    /\ UNCHANGED << rate_limit, stats, cfg, catalog, world, streak, at_start, submitted, queue, period,
                    all_decisions, page_base, handled, metadata_files, text_files,
                    run, printed >>

(* lines 588-604 for the listing `data` of the page: the decisions are     *)
(* parsed; if there are any they are collected and counted, the metadata   *)
(* file is written (save_metadata, whose open or write may raise OSError,  *)
(* which nothing catches) and the batch is submitted.                      *)
ProcessPage(data, how) ==
    LET pd == ParsePage(data.content, period) IN
    /\ all_decisions' = all_decisions \o pd
    /\ page_base' = Len(all_decisions)
    /\ handled' = {}
    /\ IF pd = << >>
       THEN /\ pc' = "page_end"
            /\ trail' = trail \cup {Event(how)}
            /\ th' = [th EXCEPT ![MainThread] = IdleThread]
            /\ UNCHANGED << stats, metadata_files, submitted >>
       ELSE /\ stats' = [stats EXCEPT !.decisions_found = @ + Len(pd)]
            /\ \E written \in IF world.meta_fail THEN BOOLEAN ELSE {TRUE} :
                 IF written
                 THEN /\ metadata_files' =
                           [id \in DOMAIN metadata_files \cup {PageId} |->
                              IF id = PageId
                              THEN Artifact([i \in 1 .. Len(pd) |-> to_dict(pd[i])])
                              ELSE metadata_files[id]]
                      /\ trail' = trail \cup {Event(how), Event("meta")}
                      /\ IF cfg.download_pdfs
                         THEN /\ pc' = "batch"
                              /\ submitted' = rate_limit
                              /\ th' = [t \in Threads |->
                                          IF t \in 1 .. Len(pd)
                                          THEN [IdleThread EXCEPT !.pc = "queued"]
                                          ELSE IdleThread]
                         ELSE /\ pc' = "page_end"
                              /\ th' = [th EXCEPT ![MainThread] = IdleThread]
                              /\ UNCHANGED submitted
                 ELSE /\ pc' = "raised"
                      /\ trail' = trail \cup {Event(how)}
                      /\ th' = [th EXCEPT ![MainThread] = IdleThread]
                      /\ UNCHANGED << metadata_files, submitted >>

(* lines 564-586, the head of the loop over the pages. *)
PageLoop ==
    /\ pc = "page"
    /\ IF page >= actual_end_page
       THEN /\ pc' = "section"
            /\ UNCHANGED << page, stats, th, all_decisions, page_base, handled,
                            metadata_files, trail, submitted >>
       ELSE IF ~cfg.overwrite_files /\ Exists(PageId)
       THEN /\ page' = page + 1
            /\ trail' = trail \cup {Event("skip")}
            /\ UNCHANGED << pc, stats, th, all_decisions, page_base, handled,
                            metadata_files, submitted >>
       ELSE IF page = cfg.start_page /\ cfg.start_page = 0
       THEN /\ ProcessPage(first_page_data, "reuse")
            /\ UNCHANGED page
       ELSE /\ th' = [th EXCEPT ![MainThread] = Entering("pre")]
            /\ pc' = "listing"
            /\ trail' = trail \cup {Event("list")}
            /\ UNCHANGED << page, stats, all_decisions, page_base, handled,
                            metadata_files, submitted >>
    /\ UNCHANGED << rate_limit, cfg, catalog, world, streak, at_start, queue, period, first_page_data,
                    total_pages, actual_end_page, text_files, run, printed >>

(* lines 578-586: the listing of the page came back; None skips the page. *)
PageListed ==
    /\ pc = "listing"
    /\ th[MainThread].pc \in {"done", "raised"}
    /\ IF th[MainThread].pc = "raised"
       THEN /\ pc' = "raised"
            /\ th' = [th EXCEPT ![MainThread] = IdleThread]
            /\ UNCHANGED << page, stats, all_decisions, page_base, handled,
                            metadata_files, trail, submitted >>
       ELSE IF IsNone(th[MainThread].ret)
       THEN /\ page' = page + 1
            /\ pc' = "page"
            /\ th' = [th EXCEPT ![MainThread] = IdleThread]
            /\ UNCHANGED << stats, all_decisions, page_base, handled,
                            metadata_files, trail, submitted >>
       ELSE /\ ProcessPage(Val(th[MainThread].ret), "listed")
            /\ UNCHANGED page
    /\ UNCHANGED << rate_limit, cfg, catalog, world, streak, at_start, queue, period, first_page_data,
                    total_pages, actual_end_page, text_files, run, printed >>

(* ------------------------------------------------------ _download_pdfs_batch *)
NoneInFlight == {}
InFlight == {t \in Tasks : th[t].pc \notin {"idle", "queued", "done", "raised"}}

(* lines 626-630: the pool runs the submitted tasks in the order of        *)
(* submission, at most max_workers at a time; a task starts at line 651.   *)
StartTask(t) ==
    /\ pc \in {"batch", "batch_err"}
    /\ t \in Tasks
    /\ th[t].pc = "queued"
    /\ \A u \in Tasks : u < t => th[u].pc # "queued"
    /\ Cardinality(InFlight) < cfg.max_workers
    /\ th' = [th EXCEPT ![t] = Entering("pre")]
    /\ trail' = trail \cup {Event("task")}
    /\ UNCHANGED << rate_limit, stats, pc, cfg, catalog, world, streak, at_start, submitted, queue, period,
                    first_page_data, total_pages, actual_end_page, page,
                    all_decisions, page_base, handled, metadata_files, text_files,
                    run, printed >>

(* save_decision_with_text, lines 433-468, for a decision that carries its *)
(* text: the paths are set when the file was written, None when the write  *)
(* raised.                                                                 *)
TextPath(name) == << "extracted_text", name >>
TextRelativePath(name) == << "..", "extracted_text", name >>
TextArtifact(d) == [case_number |-> d.case_number, text |-> Val(d.extracted_text)]
WithText(d, text) == [d EXCEPT !.extracted_text = text, !.text_extraction_success = TRUE]
Saved(d) == [d EXCEPT !.text_file_path = Some(TextPath(_create_safe_filename(d))),
                      !.text_file_relative_path =
                          Some(TextRelativePath(_create_safe_filename(d)))]
NotSaved(d) == [d EXCEPT !.text_file_path = None, !.text_file_relative_path = None]

(* lines 632-647, one turn of the loop over as_completed: the future of    *)
(* task t is done and the main thread handles its result.                  *)
HandleResult(t) ==
    /\ pc = "batch"
    /\ t \in Tasks \ handled
    /\ th[t].pc \in {"done", "raised"}
    /\ LET i == page_base + t
           d == all_decisions[i]
       IN IF th[t].pc = "raised"
          THEN /\ th' = [th EXCEPT ![MainThread].tmp = stats.errors,
                                   ![MainThread].ret = Some(t)]
               /\ pc' = "batch_err"
               /\ UNCHANGED << all_decisions, handled, text_files, trail >>
          ELSE IF ~IsNone(th[t].ret)
          THEN /\ \E written \in IF world.text_fail THEN BOOLEAN ELSE {TRUE} :
                    IF written
                    THEN /\ all_decisions' =
                              [all_decisions EXCEPT ![i] = Saved(WithText(d, th[t].ret))]
                         /\ text_files' =
                              [n \in DOMAIN text_files \cup {_create_safe_filename(d)} |->
                                 IF n = _create_safe_filename(d)
                                 THEN Artifact(TextArtifact(WithText(d, th[t].ret)))
                                 ELSE text_files[n]]
                         /\ trail' = trail \cup {Event("text")}
                    ELSE /\ all_decisions' =
                              [all_decisions EXCEPT ![i] = NotSaved(WithText(d, th[t].ret))]
                         /\ UNCHANGED << text_files, trail >>
               /\ handled' = handled \cup {t}
               /\ UNCHANGED << pc, th >>
          ELSE /\ all_decisions' =
                    [all_decisions EXCEPT ![i].text_extraction_success = FALSE]
               /\ handled' = handled \cup {t}
               /\ UNCHANGED << pc, th, text_files, trail >>
    /\ UNCHANGED << rate_limit, stats, cfg, catalog, world, streak, at_start, submitted, queue, period,
                    first_page_data, total_pages, actual_end_page, page, page_base,
                    metadata_files, run, printed >>

(* lines 644-647: the task raised; errors += 1 completes (its read was at  *)
(* HandleResult) and the decision is marked as not extracted.              *)
BatchError ==
    /\ pc = "batch_err"
    /\ LET t == Val(th[MainThread].ret) IN
       /\ stats' = [stats EXCEPT !.errors = th[MainThread].tmp + 1]
       /\ all_decisions' =
            [all_decisions EXCEPT ![page_base + t].text_extraction_success = FALSE]
       /\ handled' = handled \cup {t}
    /\ th' = [th EXCEPT ![MainThread] = IdleThread]
    /\ pc' = "batch"
    /\ UNCHANGED << rate_limit, cfg, catalog, world, streak, at_start, submitted, queue, period, first_page_data,
                    total_pages, actual_end_page, page, page_base, metadata_files,
                    text_files, run, printed, trail >>

(* as_completed has yielded every future, line 632. *)
BatchCompleteEarly == TRUE
BatchComplete == handled = 1 .. Len(page_decisions)

(* The loop over as_completed ends when every future was handled: the      *)
(* with block of line 626 is left.                                         *)
BatchDone ==
    /\ pc = "batch"
    /\ BatchComplete
    /\ pc' = "page_end"
    /\ th' = NoThreads
    /\ UNCHANGED << rate_limit, stats, cfg, catalog, world, streak, at_start, submitted, queue, period,
                    first_page_data, total_pages, actual_end_page, page,
                    all_decisions, page_base, handled, metadata_files, text_files,
                    run, printed, trail >>

(* lines 604-610: the page is counted; before the next page the main       *)
(* thread sleeps 0.1 s, or calls _adaptive_delay after recent errors.      *)
PageEnd ==
    /\ pc = "page_end"
    /\ stats' = [stats EXCEPT !.pages_processed = @ + 1]
    /\ trail' = trail \cup {Event("done")}
    /\ IF page < actual_end_page - 1 /\ rate_limit.consecutive_errors # 0
       THEN /\ th' = [th EXCEPT ![MainThread] = Entering("between")]
            /\ pc' = "between"
            /\ UNCHANGED page
       ELSE /\ th' = [th EXCEPT ![MainThread].slept =
                         IF page < actual_end_page - 1 THEN Some(PageDelay) ELSE None]
            /\ page' = page + 1
            /\ pc' = "page"
    /\ UNCHANGED << rate_limit, cfg, catalog, world, streak, at_start, submitted, queue, period, first_page_data,
                    total_pages, actual_end_page, all_decisions, page_base, handled,
                    metadata_files, text_files, run, printed >>

(* line 610 returned: the next turn of the loop over the pages. *)
Between ==
    /\ pc = "between"
    /\ th[MainThread].pc \in {"done", "raised"}
    /\ pc' = IF th[MainThread].pc = "raised" THEN "raised" ELSE "page"
    /\ page' = page + 1
    /\ th' = [th EXCEPT ![MainThread] = IdleThread]
    /\ UNCHANGED << rate_limit, stats, cfg, catalog, world, streak, at_start, submitted, queue, period,
                    first_page_data, total_pages, actual_end_page, all_decisions,
                    page_base, handled, metadata_files, text_files, run, printed,
                    trail >>

(* line 614, _print_final_stats (lines 663-687), and the return of 615. *)
PrintFinalStats ==
    /\ pc = "stats"
    /\ printed' = printed + 1
    /\ pc' = "done"
    /\ UNCHANGED << rate_limit, stats, th, cfg, catalog, world, streak, at_start, submitted, queue, period,
                    first_page_data, total_pages, actual_end_page, page,
                    all_decisions, page_base, handled, metadata_files, text_files,
                    run, trail >>

(* KeyboardInterrupt in the main thread (main, line 753): the run ends     *)
(* where it is.  What the pool threads still do touches no file.           *)
Interrupt ==
    /\ Running
    /\ world.interrupts
    /\ pc' = "interrupted"
    /\ th' = NoThreads
    /\ UNCHANGED << rate_limit, stats, cfg, catalog, world, streak, at_start, submitted, queue, period,
                    first_page_data, total_pages, actual_end_page, page,
                    all_decisions, page_base, handled, metadata_files, text_files,
                    run, printed, trail >>

(* __init__ (lines 78-131) and the entry of parse_all_decisions (lines     *)
(* 503-513): a fresh parser object over the files found on disk.           *)
Begin(c) ==
    /\ cfg = c
    /\ rate_limit = RateLimitInfo
    /\ stats = InitialStats
    /\ th = NoThreads
    /\ pc = IF c.section \in Sections THEN "section" ELSE "raised"
    /\ queue = SectionsToProcess(c.section)
    /\ period = "new"
    /\ first_page_data = NoPage
    /\ total_pages = 0
    /\ actual_end_page = 0
    /\ page = 0
    /\ all_decisions = << >>
    /\ page_base = 0
    /\ handled = {}
    /\ printed = 0
    /\ trail = {}
    /\ streak = NoStreak

(* The program is started again after a run ended: Begin in the next state. *)
Restart ==
    /\ ~Running
    /\ run < MaxRuns
    /\ run' = run + 1
    /\ \E c \in world.cfgs :
         /\ cfg' = c
         /\ queue' = SectionsToProcess(c.section)
         /\ pc' = IF c.section \in Sections THEN "section" ELSE "raised"
    /\ rate_limit' = RateLimitInfo
    /\ stats' = InitialStats
    /\ th' = NoThreads
    /\ period' = "new"
    /\ first_page_data' = NoPage
    /\ total_pages' = 0
    /\ actual_end_page' = 0
    /\ page' = 0
    /\ all_decisions' = << >>
    /\ page_base' = 0
    /\ handled' = {}
    /\ printed' = 0
    /\ trail' = {}
    /\ streak' = NoStreak
    /\ at_start' = metadata_files
    /\ submitted' = RateLimitInfo
    /\ UNCHANGED << catalog, world, metadata_files, text_files >>

(* The steps of a client call that every server makes a thread take, and  *)
(* those only a 429 response leads to.                                     *)
Plain(t) ==
    \/ AD_Test(t) \/ Get(t)
    \/ CRL_Inc(t) \/ CRL_Escalate(t)
    \/ CRL_Ok(t) \/ CRL_Decay(t) \/ CRL_Headers(t)
    \/ Handler(t)
Throttled(t) ==
    \/ AD_Read(t) \/ AD_Clear(t) \/ AD_Unlimit(t)
    \/ CRL_Limit(t) \/ CRL_RetryAfter(t)

InitIn(W) ==
    /\ world \in W
    /\ catalog \in world.catalogs
    /\ \E c \in world.cfgs : Begin(c)
    /\ metadata_files = << >>
    /\ text_files = << >>
    /\ at_start = << >>
    /\ submitted = RateLimitInfo
    /\ run = 1

(* ------------------------------------------------ the servers and the runs *)
Response(status, retry_after, remaining, body) ==
    [status |-> status, retry_after |-> retry_after, remaining |-> remaining,
     body |-> body]
Failure == NoResponse
Listing(kind) == [kind |-> kind]
Pdf(ok, len) == [kind |-> "pdf", ok |-> ok, len |-> len]

(* Raw entries of the new schema and of the old one; the n-th of a kind.  *)
NewEntry(n) ==
    [id |-> << "a", Digit(n) >>, case_number |-> << "7", "/", Digit(n) >>,
     court_names |-> "courts", hearing_date |-> "2024-05-01",
     result |-> "granted", instance |-> "APPEAL", pdf |-> << "p", Digit(n) >>]
Undated(n) == [k \in DOMAIN NewEntry(n) \ {"hearing_date"} |-> NewEntry(n)[k]]
OldEntry(n) ==
    [id |-> 16 + n, caseNumber |-> << "4", "-", Digit(n) >>,
     attachmentsList |-> << << "f", Digit(n) >> >>]
OldNoPdf(n) == [OldEntry(n) EXCEPT !.attachmentsList = << >>]

Config(section, max_pages, download_pdfs, max_workers, start_page, end_page, overwrite_files) ==
    [section |-> section, max_pages |-> max_pages, download_pdfs |-> download_pdfs,
     max_workers |-> max_workers, start_page |-> start_page, end_page |-> end_page,
     overwrite_files |-> overwrite_files]

(* Catalogues.  Book: n pages of one entry each.  Ragged: n pages, each an *)
(* entry that does not parse and one that does.  Sheet: one page of k      *)
(* entries.                                                                *)
Book(n) == [new |-> [p \in 1 .. n |-> << NewEntry(p) >>],
            old |-> [p \in 1 .. n |-> << OldEntry(p) >>]]
Ragged(n) == [new |-> [p \in 1 .. n |-> << Undated(p), NewEntry(p) >>],
              old |-> [p \in 1 .. n |-> << OldNoPdf(p), OldEntry(p) >>]]
Sheet(k) == [new |-> << [i \in 1 .. k |-> NewEntry(i)] >>,
             old |-> << [i \in 1 .. k |-> OldEntry(i)] >>]

Ok(body) == Response(200, Absent, Absent, body)
Status(code) == Response(code, Absent, Absent, Listing("none"))
Everyone(S) == [t \in Tasks |-> S]

(* A run of listing calls alone, against a server that answers with every  *)
(* status and header the rate controller tells apart.                      *)
RateWorld ==
    [listing |->
        {Response(200, Absent, rem, Listing("page")) : rem \in {Absent, Num(9), Num(10)}}
        \cup {Response(429, ra, Absent, Listing("none")) :
                 ra \in {Absent, Text, Num(0), Num(2)}}
        \cup {Response(429, Absent, Num(9), Listing("none")),
              Response(429, Num(2), Num(9), Listing("none")),
              Response(404, Absent, Num(9), Listing("none")),
              Response(502, Absent, Num(9), Listing("none")),
              Status(502), Status(404), Failure},
     pdf |-> Everyone({}),
     meta_fail |-> FALSE, text_fail |-> FALSE, interrupts |-> FALSE,
     catalogs |-> {Book(MaxPages)},
     cfgs |-> {Config(s, None, FALSE, 1, 0, None, TRUE) : s \in {"new", "old"}}]

(* parse_all_decisions over a catalogue of one page, and what more it     *)
(* does when there are further pages.                                      *)
Orchestrator ==
    \/ SectionLoop \/ FirstPage \/ PageLoop
    \/ PageEnd \/ PrintFinalStats
Paging == PageListed \/ Between

Pool ==
    \E t \in Tasks : StartTask(t) \/ PostPdf(t) \/ HandleResult(t)

InitRate == InitIn({RateWorld})
NextRate ==
    \/ \E t \in Threads : Plain(t) \/ Throttled(t)
    \/ PostListing
    \/ Orchestrator \/ Paging
SpecRate == InitRate /\ [][NextRate]_vars

(* Runs that are interrupted and started again over the files they left,   *)
(* with and without overwriting, from page 0 or page 1.                    *)
ResumeWorld ==
    [listing |-> {Ok(Listing("page")), Status(502), Failure},
     pdf |-> Everyone({Ok(Pdf(TRUE, MinTextLen)), Failure}),
     meta_fail |-> FALSE, text_fail |-> FALSE, interrupts |-> TRUE,
     catalogs |-> {Book(MaxPages)},
     cfgs |-> {Config("new", None, TRUE, 1, sp, None, ow) :
                 sp \in {0, 1}, ow \in BOOLEAN}]

InitResume == InitIn({ResumeWorld})
NextResume ==
    \/ \E t \in Threads : Plain(t)
    \/ PostListing
    \/ Orchestrator \/ Paging
    \/ Pool \/ BatchDone
    \/ Interrupt \/ Restart
SpecResume == InitResume /\ [][NextResume]_vars

(* One run over both sections against servers and a disk that fail in     *)
(* every way but throttling: error statuses, transport failures, bodies   *)
(* that do not decode, entries that do not parse, PDFs that cannot be read *)
(* or hold too little text, and files that cannot be written.             *)
CrawlWorld ==
    [listing |-> {Ok(Listing("page")), Ok(Listing("wrappedbad")), Ok(Listing("notjson")),
                  Status(502), Failure},
     pdf |-> Everyone({Ok(Pdf(TRUE, MinTextLen)), Ok(Pdf(TRUE, MinTextLen - 1)),
                       Ok(Pdf(FALSE, 0)), Status(404), Failure}),
     meta_fail |-> TRUE, text_fail |-> TRUE, interrupts |-> FALSE,
     catalogs |-> {Ragged(MaxPages - 1)},
     cfgs |-> {Config("both", None, TRUE, 1, 0, None, TRUE)}]

InitCrawl == InitIn({CrawlWorld})
NextCrawl ==
    \/ \E t \in Threads : Plain(t)
    \/ PostListing
    \/ Orchestrator \/ Paging
    \/ Pool \/ BatchDone
SpecCrawl == InitCrawl /\ [][NextCrawl]_vars

(* One page whose records are fetched by as many workers as there are      *)
(* records.  The server fails every request for the PDFs of the records in *)
(* F, by throttling, an error status or a transport failure, and serves a  *)
(* readable PDF for every other record.                                    *)
Refused == {Response(429, Num(2), Absent, Listing("none")), Status(502), Status(404),
            Failure}
Served == {Ok(Pdf(TRUE, MinTextLen))}
BatchWorld(F) ==
    [listing |-> {Ok(Listing("page"))},
     pdf |-> [t \in Tasks |-> IF t \in F THEN Refused ELSE Served],
     meta_fail |-> FALSE, text_fail |-> FALSE, interrupts |-> FALSE,
     catalogs |-> {Sheet(MaxEntries)},
     cfgs |-> {Config("new", None, TRUE, MaxEntries, 0, None, TRUE)}]

InitBatch == InitIn({BatchWorld(F) : F \in SUBSET Tasks})
NextBatch ==
    \/ \E t \in Threads : Plain(t) \/ Throttled(t)
    \/ PostListing
    \/ Orchestrator
    \/ Pool \/ BatchDone \/ BatchError
SpecBatch == InitBatch /\ [][NextBatch]_vars

(* A section whose requests all succeed: Ledger holds a page of MaxEntries *)
(* entries and a page of one; Namesakes holds one page of entries of the   *)
(* same case whose ids agree in their first eight characters.              *)
Smooth(t) == AD_Test(t) \/ Get(t) \/ CRL_Ok(t) \/ CRL_Headers(t)
LongId(n) == << "1", "2", "3", "4", "5", "6", "7", "8", Digit(n) >>
Twin(n) == [NewEntry(n) EXCEPT !.id = LongId(n), !.case_number = << "7", "/", "1" >>]
OldTwin(n) == [OldEntry(n) EXCEPT !.id = 123456780 + n, !.caseNumber = << "4", "-", "1" >>]
Ledger ==
    [new |-> << [i \in 1 .. MaxEntries |-> NewEntry(i)], << NewEntry(MaxEntries + 1) >> >>,
     old |-> << [i \in 1 .. MaxEntries |-> OldEntry(i)], << OldEntry(MaxEntries + 1) >> >>]
Namesakes ==
    [new |-> << [i \in 1 .. MaxEntries |-> Twin(i)] >>,
     old |-> << [i \in 1 .. MaxEntries |-> OldTwin(i)] >>]
AccountWorld ==
    [listing |-> {Ok(Listing("page"))},
     pdf |-> Everyone(Served),
     meta_fail |-> FALSE, text_fail |-> FALSE, interrupts |-> FALSE,
     catalogs |-> {Ledger, Namesakes},
     cfgs |-> {Config(sec, None, TRUE, w, 0, None, TRUE) :
                 sec \in {"new", "old"}, w \in {1, MaxEntries}}]

InitAccount == InitIn({AccountWorld})
NextAccount ==
    \/ \E t \in Threads : Smooth(t)
    \/ PostListing
    \/ Orchestrator \/ PageListed
    \/ Pool \/ BatchDone
SpecAccount == InitAccount /\ [][NextAccount]_vars

(* Page ranges: a section of one page and one of MaxPages pages, crawled   *)
(* without downloads under every cap, resume point and end page around     *)
(* the number of pages; a listing may be refused or fail.                  *)
RangeWorld ==
    [listing |-> {Ok(Listing("page")), Status(502), Failure},
     pdf |-> Everyone({}),
     meta_fail |-> FALSE, text_fail |-> FALSE, interrupts |-> FALSE,
     catalogs |-> {Book(1), Book(MaxPages)},
     cfgs |-> {Config(sec, mp, FALSE, 1, sp, ep, TRUE) :
                 sec \in {"new", "both"},
                 mp \in {None, Some(0), Some(MaxPages - 1)},
                 sp \in 0 .. MaxPages,
                 ep \in {None, Some(0), Some(1), Some(MaxPages + 1)}}]

InitRange == InitIn({RangeWorld})
NextRange ==
    \/ \E t \in Threads : Plain(t)
    \/ PostListing
    \/ Orchestrator \/ Paging
SpecRange == InitRange /\ [][NextRange]_vars

(* Entries that do not normalize.  Lacking(n, f): the n-th new entry       *)
(* without its key f.  Patchy(f): a page of such an entry followed by a    *)
(* well-formed one of another instance, then a page of such an entry       *)
(* alone; in the old schema the entry without attachments plays the part.  *)
Lacking(n, f) == [k \in DOMAIN NewEntry(n) \ {f} |-> NewEntry(n)[k]]
Patchy(f) ==
    [new |-> << << Lacking(1, f), [NewEntry(2) EXCEPT !.instance = "CASSATION"] >>,
                << Lacking(3, f) >> >>,
     old |-> << << OldNoPdf(1), OldEntry(2) >>, << OldNoPdf(3) >> >>]
EntriesWorld ==
    [listing |-> {Ok(Listing("page"))},
     pdf |-> Everyone(Served),
     meta_fail |-> FALSE, text_fail |-> FALSE, interrupts |-> FALSE,
     catalogs |-> {Patchy(f) : f \in DOMAIN NewEntry(1)},
     cfgs |-> {Config(sec, None, dl, 1, 0, None, TRUE) :
                 sec \in {"new", "old"}, dl \in BOOLEAN}]

InitEntries == InitIn({EntriesWorld})
NextEntries ==
    \/ \E t \in Threads : Smooth(t)
    \/ PostListing
    \/ Orchestrator \/ PageListed
    \/ Pool \/ BatchDone
SpecEntries == InitEntries /\ [][NextEntries]_vars

(* The batch of one page of MaxEntries records on 1 to MaxEntries workers: *)
(* the PDF requests of the records in F are answered 502 or fail, those    *)
(* of the others are served.                                               *)
PoolWorld(F) ==
    [listing |-> {Ok(Listing("page"))},
     pdf |-> [t \in Tasks |-> IF t \in F THEN {Status(502), Failure} ELSE Served],
     meta_fail |-> FALSE, text_fail |-> FALSE, interrupts |-> FALSE,
     catalogs |-> {Sheet(MaxEntries)},
     cfgs |-> {Config("new", None, TRUE, w, 0, None, TRUE) : w \in 1 .. MaxEntries}]

InitPool == InitIn({PoolWorld(F) : F \in SUBSET Tasks})
NextPool ==
    \/ \E t \in Threads : Plain(t)
    \/ PostListing
    \/ Orchestrator
    \/ Pool \/ BatchDone
SpecPool == InitPool /\ [][NextPool]_vars

(* ------------------------------------------------------------------ claims *)

(* C1: in every reachable state, whatever outcomes were observed, the      *)
(* delay of the rate-limit state lies within [min_delay, max_delay].       *)
C1_DelayWithinBounds ==
    /\ min_delay <= rate_limit.current_delay
    /\ rate_limit.current_delay <= max_delay

(* C1's case: a run of error outcomes pushed the delay to the upper bound. *)
C1_DelayClamped ==
    /\ rate_limit.current_delay = max_delay
    /\ rate_limit.consecutive_errors >= 5

(* C2: after a 429 whose Retry-After parses to r >= 0, the next            *)
(* _adaptive_delay call sleeps r + 0.5 s, and when it has returned the     *)
(* stored retry-after value is cleared and is_limited is false.            *)
C2_RetryAfterHonoured ==
    LET m == th[MainThread] IN
    (m.pc = "get" /\ m.phase = "retry" /\ m.resp.status = 429
        /\ Parses(m.resp.retry_after))
    => /\ m.slept = Some(Seconds(m.resp.retry_after.v) + RetryAfterMargin)
       /\ IsNone(rate_limit.retry_after)
       /\ ~rate_limit.is_limited

(* C3 as stated: after error outcomes followed by observed 200 responses,  *)
(* with or without quota headers, consecutive_errors is 0 and none of the  *)
(* successes left the delay above what it found, nor below min_delay.      *)
C3_SuccessesNeverRaiseDelay ==
    (streak.errs /\ streak.oks > 0)
    => /\ rate_limit.consecutive_errors = 0
       /\ streak.mono
       /\ rate_limit.current_delay >= min_delay

(* C3 as amended: the same, for 200 responses none of which carries a      *)
(* remaining-quota header below 10.                                        *)
C3_SuccessesWithoutLowQuotaNeverRaiseDelay ==
    (streak.errs /\ streak.oks > 0 /\ ~streak.low)
    => /\ rate_limit.consecutive_errors = 0
       /\ streak.mono
       /\ rate_limit.current_delay >= min_delay

(* C3's case: errors, then two observed 200 responses without low quota,   *)
(* the first of which decayed the delay.                                   *)
C3_TwoSuccessesAfterErrors ==
    /\ streak.errs /\ streak.oks = 2 /\ ~streak.low
    /\ rate_limit.current_delay < InitialDelay

(* What the trail holds: event k of page p of section per. *)
Did(k, per, p) == [k |-> k, per |-> per, pg |-> p] \in trail
Work == {"list", "reuse", "listed", "meta", "task", "text", "done"}
(* The pages of the sections whose page loop this run entered. *)
InRange == UNION {{<< e.per, p >> : p \in cfg.start_page .. e.pg - 1} :
                    e \in {x \in trail : x.k = "range"}}

(* C4: with overwrite disabled, a page whose metadata file the run found   *)
(* on disk is never rewritten and nothing is listed, written or downloaded *)
(* for it; and when the run has returned, every page in range that had a   *)
(* file was skipped and every page in range that had none was processed.   *)
C4_ResumeSkipsExistingPages ==
    ~cfg.overwrite_files
    => /\ \A id \in DOMAIN at_start :
            /\ id \in DOMAIN metadata_files
            /\ metadata_files[id] = at_start[id]
            /\ \A k \in Work : ~Did(k, id[1], id[2])
       /\ pc = "done"
          => \A id \in InRange :
                IF id \in DOMAIN at_start
                THEN Did("skip", id[1], id[2])
                ELSE /\ Did("list", id[1], id[2]) \/ Did("reuse", id[1], id[2])
                     /\ ~Did("skip", id[1], id[2])

(* C4's case: a second run from page 0 without overwriting has returned;   *)
(* it found the files of pages 0 and 1 and not that of page 2, skipped the *)
(* former and wrote the metadata and the text of the latter.               *)
C4_SecondRunProcessedTheRest ==
    /\ run = 2 /\ pc = "done" /\ ~cfg.overwrite_files /\ cfg.start_page = 0
    /\ DOMAIN at_start = {<< "new", 0 >>, << "new", 1 >>}
    /\ Did("skip", "new", 0) /\ Did("skip", "new", 1)
    /\ Did("meta", "new", 2) /\ Did("text", "new", 2)
    /\ metadata_files[<< "new", 2 >>].run = 2
    /\ metadata_files[<< "new", 0 >>].run = 1

(* The records of the page whose batch is in progress or has returned. *)
Records == 1 .. Len(page_decisions)
Unextracted(d) ==
    /\ ~d.text_extraction_success
    /\ IsNone(d.text_file_path) /\ IsNone(d.text_file_relative_path)
Extracted(d) ==
    /\ d.text_extraction_success
    /\ ~IsNone(d.text_file_path) /\ ~IsNone(d.text_file_relative_path)
(* The server refuses every request for the PDF of record i; it serves a   *)
(* PDF with enough text for every request.                                 *)
FetchFails(i) == \A r \in world.pdf[i] : r.status # 200
FetchSucceeds(i) ==
    \A r \in world.pdf[i] : r.status = 200 /\ r.body.ok /\ r.body.len >= MinTextLen

(* C5: when the batch of a page has returned, exactly the records whose    *)
(* fetch fails are marked unextracted with null paths, and every record    *)
(* whose fetch and extraction succeed is marked extracted with both paths  *)
(* set, whatever its siblings did and in whatever order they completed.    *)
C5_FailuresStayWithTheirRecords ==
    (pc = "page_end" /\ cfg.download_pdfs)
    => \A i \in Records :
          /\ FetchFails(i) => Unextracted(page_decisions[i])
          /\ FetchSucceeds(i) => Extracted(page_decisions[i])

(* C6: when the batch of a page has returned and the orchestrator is about *)
(* to move to the next page, the metadata file of the page holds the       *)
(* text-path fields and flags its records now carry.                       *)
C6_MetadataCarriesTextFields ==
    (pc = "page_end" /\ cfg.download_pdfs /\ Records # {})
    => /\ PageId \in DOMAIN metadata_files
       /\ metadata_files[PageId].content =
             [i \in Records |-> to_dict(page_decisions[i])]

(* C7: every record whose task has been handled has its flag and its paths *)
(* agree: extracted with both paths set, or unextracted with both null.    *)
C7_FlagAgreesWithPaths ==
    cfg.download_pdfs
    => \A i \in 1 .. Len(all_decisions) :
          (i <= page_base \/ i - page_base \in handled)
          => Extracted(all_decisions[i]) \/ Unextracted(all_decisions[i])

(* The delay after n escalations by the factor of the exception handler. *)
RECURSIVE EscalatedTimes(_, _)
EscalatedTimes(d, n) ==
    IF n = 0 THEN d ELSE EscalatedTimes(Escalate(d, ServerErrorFactor), n - 1)
(* Every task of the page made one request, which failed in transport: in  *)
(* any serial order each handler adds one to consecutive_errors and        *)
(* escalates the delay once.                                               *)
AllFailedInTransport ==
    \A t \in Records : th[t].pc = "done" /\ th[t].phase = "pre" /\ th[t].resp = Failure

(* C8: the concurrent updates of the rate-limit state leave what some      *)
(* serial order of them leaves; for a batch whose requests all failed in   *)
(* transport, one increment and one escalation for each task.              *)
C8_UpdatesAreSerializable ==
    (pc = "batch" /\ Records # {} /\ handled = Records /\ AllFailedInTransport)
    => /\ rate_limit.consecutive_errors =
             submitted.consecutive_errors + Len(page_decisions)
       /\ rate_limit.current_delay =
             EscalatedTimes(submitted.current_delay, Len(page_decisions))

(* C9: no failure of a request, a payload, an entry, an extraction or a    *)
(* file write ends the run with an exception.                              *)
C9_NoFailureEndsTheRun == pc # "raised"

(* C10: a run that has ended without an interrupt has printed the final    *)
(* statistics exactly once.                                                *)
C10_SummaryPrintedOnce == pc \in {"done", "raised"} => printed = 1

(* The entries of a sequence of pages. *)
RECURSIVE Entries(_)
Entries(pages) == IF pages = << >> THEN 0 ELSE Len(Head(pages)) + Entries(Tail(pages))

(* C11: a run over one section whose pages are all listed, whose entries   *)
(* all normalize and whose PDFs are all fetched and extracted ends with    *)
(* pages_processed the number of pages, decisions_found the number of      *)
(* entries, one metadata file for each page and one text file for each     *)
(* record.                                                                 *)
C11_EveryRecordAccounted ==
    pc = "done"
    => /\ stats.pages_processed = Len(catalog[period])
       /\ stats.decisions_found = Entries(catalog[period])
       /\ Len(all_decisions) = Entries(catalog[period])
       /\ Cardinality(DOMAIN metadata_files) = Len(catalog[period])
       /\ Cardinality(DOMAIN text_files) = Entries(catalog[period])

(* The latest response of the call of thread t is one the call turns into  *)
(* a result: a listing page, or a PDF with enough text.                    *)
Usable(t) ==
    /\ th[t].resp.status = 200
    /\ IF t = MainThread THEN th[t].resp.body.kind = "page"
       ELSE th[t].resp.body.ok /\ th[t].resp.body.len >= MinTextLen

(* C12: a call of get_decisions_list or download_pdf_and_extract_text      *)
(* issues at most two requests, each after a suspension of its own, the    *)
(* second only after _check_rate_limits returned False for the first; what *)
(* the second request yields is what the call returns.                     *)
C12_AtMostTwoRequests ==
    \A t \in Threads :
       /\ th[t].reqs <= 2
       /\ th[t].reqs <= th[t].naps
       /\ th[t].reqs = 2 => th[t].phase = "retry"
       /\ (th[t].pc = "done" /\ th[t].reqs = 2)
          => /\ th[t].resp.status # 200 => IsNone(th[t].ret)
             /\ Usable(t) => ~IsNone(th[t].ret)

(* C12's case: a listing call that returned the page it obtained from its  *)
(* second request, after the first one was answered with a server error.   *)
C12_SecondAttemptReturned ==
    /\ th[MainThread].pc = "done"
    /\ th[MainThread].reqs = 2
    /\ th[MainThread].naps = 2
    /\ ~IsNone(th[MainThread].ret)
    /\ rate_limit.current_delay > InitialDelay

(* C13: a page whose metadata file exists is skipped, when overwrite is    *)
(* not requested, without a listing request for it, and pages_processed    *)
(* counts the skipped pages as it counts the pages whose handling ended.   *)
C13_SkippedPagesAreCounted ==
    /\ \A e \in trail : e.k = "skip" => ~Did("list", e.per, e.pg)
    /\ stats.pages_processed
          = Cardinality({e \in trail : e.k \in {"skip", "done"}})

(* The numbers of pages a run found for section per at line 523, and the   *)
(* pages of the section the loop of line 564 took up.                      *)
Found(per) == {e.pg : e \in {f \in trail : f.k = "found" /\ f.per = per}}
Visited(per) ==
    {e.pg : e \in {f \in trail : f.k \in {"skip", "list", "reuse"} /\ f.per = per}}
(* The last page of a section of n pages under the cap and the end page    *)
(* of the call: both inclusive, the end page clamped to the capped total.  *)
Capped(n) ==
    IF ~IsNone(cfg.max_pages) /\ Val(cfg.max_pages) # 0
    THEN Min(n, Val(cfg.max_pages)) ELSE n
ClampedEnd(n) ==
    IF IsNone(cfg.end_page) THEN Capped(n) - 1
    ELSE Min(Val(cfg.end_page), Capped(n) - 1)

C15_HandledPagesHaveMetadata ==
    \A e \in trail : e.k = "done" => Exists(<< e.per, e.pg >>)

(* An entry of the new schema with every required field, and the           *)
(* well-formed entries of page p of the new section, in order.             *)
WellFormed(e) ==
    /\ "id" \in DOMAIN e /\ "case_number" \in DOMAIN e
    /\ "court_names" \in DOMAIN e /\ "hearing_date" \in DOMAIN e
    /\ "result" \in DOMAIN e /\ "instance" \in DOMAIN e
    /\ "pdf" \in DOMAIN e
WellFormedOf(p) == SelectSeq(catalog.new[p + 1], WellFormed)
RECURSIVE WellFormedUpTo(_)
WellFormedUpTo(n) ==
    IF n = 0 THEN 0 ELSE Len(WellFormedOf(n - 1)) + WellFormedUpTo(n - 1)

(* C17: an entry of the new schema that lacks a required field is dropped  *)
(* and the page goes on: a handled page with well-formed entries has       *)
(* exactly those, in order and with their instance, in its metadata file;  *)
(* decisions_found counts exactly the well-formed entries of the pages     *)
(* taken up so far; and the run ends normally with every page handled.     *)
C17_MalformedEntriesAreDropped ==
    period = "new"
    => /\ \A e \in trail :
             (e.k = "done" /\ WellFormedOf(e.pg) # << >>)
             => /\ Exists(<< "new", e.pg >>)
                /\ LET kept == metadata_files[<< "new", e.pg >>].content
                       good == WellFormedOf(e.pg)
                   IN /\ Len(kept) = Len(good)
                      /\ \A i \in 1 .. Len(good) :
                            /\ kept[i].id = good[i].id
                            /\ kept[i].instance = good[i].instance
       /\ pc \in {"page", "listing"} => stats.decisions_found = WellFormedUpTo(page)
       /\ pc # "raised"
       /\ pc = "done"
          => /\ stats.decisions_found = WellFormedUpTo(Len(catalog.new))
             /\ Len(all_decisions) = WellFormedUpTo(Len(catalog.new))
             /\ \A p \in 0 .. Len(catalog.new) - 1 : Did("done", "new", p)

(* C17's case: the run over the pages whose first entry lacks its          *)
(* hearing_date has returned; the sibling of that entry is the one record  *)
(* of page 0, with its own instance.                                        *)
C17_SiblingOfUndatedEntryKept ==
    /\ pc = "done" /\ period = "new"
    /\ catalog = Patchy("hearing_date")
    /\ stats.decisions_found = 1
    /\ Len(metadata_files[<< "new", 0 >>].content) = 1
    /\ metadata_files[<< "new", 0 >>].content[1].instance = "CASSATION"
    /\ Did("done", "new", 1)

(* What was done so far for the pages of the section being crawled. *)
Steps == {e \in trail : e.per = period /\ e.k \in Work \cup {"skip"}}

(* C16: within a section nothing is done for a page before everything was  *)
(* done for the pages below it.  At the head of the loop every step so far *)
(* belongs to a lower page; while the listing of a page is requested that  *)
(* request is the only step of the page; no pool task is alive outside the *)
(* batch; and when the batch of a page has returned the metadata of the    *)
(* page was written before its tasks and every task was handled.           *)
C16_PagesInIncreasingOrder ==
    /\ \A e \in Steps : e.pg <= page
    /\ pc = "page" => \A e \in Steps : e.pg < page
    /\ pc = "listing" => \A e \in Steps : e.pg < page \/ e.k = "list"
    /\ pc \in {"page", "listing", "page_end", "between"}
          => \A t \in Tasks : th[t].pc = "idle"
    /\ \A e \in Steps : e.k \in {"task", "text"} => Did("meta", period, e.pg)
    /\ (pc \in {"page_end", "between"} /\ cfg.download_pdfs /\ Did("meta", period, page))
          => handled = Records

(* C16's case: the listing of page 1 is being requested after the batch of *)
(* page 0 ran MaxEntries tasks on as many workers and wrote their texts.   *)
C16_NextListingAfterBatch ==
    /\ pc = "listing" /\ page = 1
    /\ th[MainThread].pc = "get"
    /\ cfg.max_workers = MaxEntries
    /\ Cardinality(handled) = MaxEntries
    /\ Did("meta", period, 0) /\ Did("task", period, 0) /\ Did("text", period, 0)
    /\ Did("done", period, 0)

(* C18: when _check_rate_limits has returned, True or False, for a         *)
(* response of any status whose remaining-quota header parses below 10,    *)
(* the delay is at least 2.0 s.                                            *)
C18_LowQuotaFloorsDelayForAnyStatus ==
    LET m == th[MainThread] IN
    (/\ LowQuota(m.resp)
     /\ \/ m.pc = "post" /\ m.phase = "pre"
        \/ m.pc = "ad_test" /\ m.phase = "retry")
    => rate_limit.current_delay >= LowQuotaDelay

(* The main thread's call of _adaptive_delay has just returned. *)
DelayReturned ==
    \/ th[MainThread].pc = "get"
    \/ th[MainThread].phase = "between" /\ th[MainThread].pc = "done"

(* C19: when _adaptive_delay has returned it has slept the stored          *)
(* retry-after value plus 0.5 s if one was stored at the call, and then    *)
(* the value is cleared and is_limited is false; else current_delay if     *)
(* consecutive_errors was positive; else the configured delay.  It has set *)
(* last_request_time and left current_delay and consecutive_errors alone.  *)
C19_DelayChosenByPriority ==
    LET m == th[MainThread]
        w == m.was.rate_limit
    IN DelayReturned
       => /\ m.slept = Some(IF ~IsNone(w.retry_after)
                            THEN Seconds(Val(w.retry_after)) + RetryAfterMargin
                            ELSE IF w.consecutive_errors > 0
                                 THEN w.current_delay ELSE delay)
          /\ IF ~IsNone(w.retry_after)
             THEN IsNone(rate_limit.retry_after) /\ ~rate_limit.is_limited
             ELSE /\ rate_limit.retry_after = w.retry_after
                  /\ rate_limit.is_limited = w.is_limited
          /\ rate_limit.last_request_time = Some(Now)
          /\ rate_limit.current_delay = w.current_delay
          /\ rate_limit.consecutive_errors = w.consecutive_errors

(* The last request of the call of thread t failed in transport, the call  *)
(* has returned, and no task submitted after t has started.                *)
FailedInTransport(t) ==
    /\ th[t].pc = "done" /\ th[t].reqs >= 1 /\ th[t].resp = Failure
    /\ \A u \in Tasks : u > t => th[u].pc \in {"idle", "queued"}

(* C20: a listing or PDF call whose request failed in transport returns    *)
(* None without a further suspension or request, and since the call's last *)
(* suspension errors and consecutive_errors have grown by one and the      *)
(* delay by the factor 1.5, clamped to max_delay.                          *)
C20_TransportFailureEscalatesOnce ==
    \A t \in Threads :
       FailedInTransport(t)
       => LET w == th[t].was IN
          /\ IsNone(th[t].ret)
          /\ th[t].naps = th[t].reqs
          /\ stats.errors = w.errors + 1
          /\ rate_limit.consecutive_errors = w.rate_limit.consecutive_errors + 1
          /\ rate_limit.current_delay
                = Min((w.rate_limit.current_delay * 15) \div 10, max_delay)

(* C20's case: a PDF call has returned after its one request failed in     *)
(* transport, following a listing whose errors had raised the delay.       *)
C20_PdfRequestFailed ==
    \E t \in Tasks :
       /\ FailedInTransport(t)
       /\ th[t].reqs = 1
       /\ th[t].was.rate_limit.current_delay > InitialDelay
       /\ rate_limit.current_delay > th[t].was.rate_limit.current_delay
       /\ stats.errors >= 1

(* C21: every completed exchange is observed by _check_rate_limits, the    *)
(* retry included: when a listing call has returned with HTTP 200 as its   *)
(* final response, consecutive_errors is 0.                                *)
C21_FinalSuccessResetsErrors ==
    LET m == th[MainThread] IN
    (m.pc = "done" /\ m.reqs >= 1 /\ m.resp.status = 200)
    => rate_limit.consecutive_errors = 0

(* The tasks of the batch that are running, and the records the batch was  *)
(* called with: the entries of the page that parse, in their order.        *)
Busy == {t \in Tasks : th[t].pc \notin {"idle", "queued", "done", "raised"}}
Input == ParsePage(catalog[period][page + 1], period)

(* C22: in the batch of a page at most max_workers tasks run at a time,    *)
(* the tasks are exactly one per record, a result is handled only when its *)
(* task has ended, the batch returns only when every record was handled,   *)
(* and the records stay in the order of the input.                         *)
C22_BoundedBatchKeepsOrder ==
    /\ Cardinality(Busy) <= cfg.max_workers
    /\ pc \in {"batch", "batch_err"}
          => /\ {t \in Tasks : th[t].pc # "idle"} = Records
             /\ \A t \in handled : th[t].pc \in {"done", "raised"}
    /\ (pc = "page_end" /\ Did("task", period, page))
          => /\ handled = Records
             /\ Busy = {}
    /\ pc \in {"batch", "batch_err", "page_end"}
          => /\ Len(page_decisions) = Len(Input)
             /\ \A i \in Records :
                   /\ page_decisions[i].id = Input[i].id
                   /\ page_decisions[i].pdf_id = Input[i].pdf_id

(* C22's case: the batch of a page of several records has returned from a  *)
(* pool of one worker; the task of the first record failed and the task of *)
(* the second, which had to wait for the worker, succeeded.                *)
C22_OneWorkerRanBothInTurn ==
    /\ pc = "page_end" /\ cfg.max_workers = 1
    /\ handled = 1 .. MaxEntries /\ MaxEntries >= 2
    /\ ~page_decisions[1].text_extraction_success
    /\ page_decisions[2].text_extraction_success
    /\ stats.errors >= 1

(* The call of task t has returned without a text, and no task submitted   *)
(* after t has started.                                                    *)
SoftFailure(t) ==
    /\ th[t].pc = "done" /\ th[t].reqs >= 1 /\ IsNone(th[t].ret)
    /\ \A u \in Tasks : u > t => th[u].pc \in {"idle", "queued"}

(* C23: a record whose fetch failed, whose extraction raised or whose text *)
(* is shorter than 50 characters has raised errors or                      *)
(* text_extraction_errors by one, and once handled it is not extracted     *)
(* and has no text paths.                                                  *)
C23_SoftFailuresAreCounted ==
    \A t \in Tasks :
       (pc = "batch" /\ SoftFailure(t))
       => /\ stats.errors + stats.text_extraction_errors
                = th[t].was.errors + th[t].was.text_extraction_errors + 1
          /\ t \in handled => Unextracted(all_decisions[page_base + t])

(* The records of the page whose text was extracted, and the others. *)
Succeeded == {i \in Records : page_decisions[i].text_extraction_success}
Failed == Records \ Succeeded

(* C24: each counted event raises its counter by exactly one in every      *)
(* interleaving of the tasks.  When the batch of the one page has returned *)
(* (every unextracted record had a failed fetch, every listing succeeded)  *)
(* texts_extracted and pdfs_downloaded count the extracted records and     *)
(* errors counts the others.                                               *)
C24_EachEventCountsOnce ==
    pc = "page_end"
    => /\ stats.texts_extracted = Cardinality(Succeeded)
       /\ stats.pdfs_downloaded = Cardinality(Succeeded)
       /\ stats.errors = Cardinality(Failed)
       /\ stats.text_extraction_errors = 0

(* C25: any two distinct records of a run whose text was written have      *)
(* different text file paths, so that no write replaces the text of        *)
(* another record and every written record has its own file.               *)
C25_TextPathsAreDisjoint ==
    /\ \A i, j \in 1 .. Len(all_decisions) :
          (/\ i # j
           /\ all_decisions[i].id # all_decisions[j].id
           /\ ~IsNone(all_decisions[i].text_file_path)
           /\ ~IsNone(all_decisions[j].text_file_path))
          => all_decisions[i].text_file_path # all_decisions[j].text_file_path
    /\ Cardinality(DOMAIN text_files)
          = Cardinality({i \in 1 .. Len(all_decisions) :
                           ~IsNone(all_decisions[i].text_file_path)})

(* The sections the call was asked for, those whose first page has been    *)
(* requested, and those whose first-page call has returned None.           *)
Requested == IF cfg.section = "both" THEN {"new", "old"} ELSE {cfg.section}
Begun == {per \in Requested : \A i \in 1 .. Len(queue) : queue[i] # per}
Undiscovered ==
    {per \in Begun : Found(per) = {} /\ ~(per = period /\ pc \in {"first", "raised"})}

C27_Every429SetsLimited ==
    LET m == th[MainThread] IN
    (m.resp.status = 429 /\ m.pc \in {"crl_inc_r", "post"})
    => rate_limit.is_limited

====
